---- MODULE Spec2Model ----
(***************************************************************************)
(* Access control of the express-crud-api project/task tracker.            *)
(*                                                                         *)
(* The state is the relational store (users, projects, tasks, categories,  *)
(* file records), the upload directory, the access token each client       *)
(* holds, and the last HTTP response.  Every route handler is one action:  *)
(* its guards are the handler's early returns, in the order of the code.   *)
(* Ids are integers handed out in sequence (a fresh uuid is never reused); *)
(* NULL is the SQL NULL of an optional column.                             *)
(***************************************************************************)
EXTENDS Integers, FiniteSets, Sequences, TLC

\* ------------------------------------------------------------------ bounds
MaxUsers == 3
MaxProjects == 2
MaxTasks == 2
MaxNewCats == 1
MaxFilesPerUpload == 2
MaxCommits == 3
\* calls that may be between their check and their write at one time, and the budget
\* of writes of a run in which calls overlap
MaxInFlight == 2
MaxRaceCommits == 5
\* token lifetimes and the end of the clock, in ticks: the 24h and 7d of the code keep
\* their order
AccessTTL == 1
RefreshTTL == 2
MaxTime == 3

\* ------------------------------------------------------- program constants
NULL == 0
NumDefaultCats == 8

Roles == {"admin", "manager", "user"}
TaskStatuses == {"todo", "in_progress", "review", "completed"}
ProjectStatuses == {"planning", "active", "completed", "cancelled"}

\* ----------------------------------------------------------- request inputs
UserIds == 1..MaxUsers
ProjectIds == 1..MaxProjects
TaskIds == 1..MaxTasks
CatIds == {1, NumDefaultCats + 1}
Emails == 1..MaxUsers
Passwords == {1, 2}
TaskStatusInputs == {"completed"}
ProjectStatusInputs == {"active"}
NoToken == "none"

VARIABLES
  users,          \* id -> [email, password, role, active, last_login, avatar]
  projects,       \* id -> [created_by, status]
  tasks,          \* id -> [project_id, assigned_to, category_id, status, created_by]
  categories,     \* set of category ids
  task_files,     \* sequence of [task_id, uploaded_by]
  project_files,  \* sequence of [project_id, uploaded_by]
  disk,           \* number of files in the uploads directory
  nextUser, nextProject, nextTask, nextCat,
  session,        \* user id -> role carried by the access token held, or NoToken
  accessExp,      \* user id -> exp of the access token held
  refreshExp,     \* user id -> exp of the refresh token held, NULL when none
  now,            \* the clock
  commits,        \* number of requests so far that changed persistent state
  budget,         \* the number of such requests the run may make
  calls,          \* call id -> a call that passed its checks and has not yet written
  resp            \* the last response

store == <<users, projects, tasks, categories, task_files, project_files, disk>>
counters == <<nextUser, nextProject, nextTask, nextCat>>
vars == <<users, projects, tasks, categories, task_files, project_files, disk,
          nextUser, nextProject, nextTask, nextCat, session, accessExp, refreshExp, now,
          commits, budget, calls, resp>>
\* what the clients hold, and the clock their tokens are judged by
tokens == <<session, accessExp, refreshExp, now>>
\* the calls in flight and the budget of the run
inflight == <<budget, calls>>

\* ---------------------------------------------------------------- helpers
NoFacts ==
  [exists |-> FALSE, created_by |-> NULL, assigned_to |-> NULL, project_owner |-> NULL,
   project_id |-> NULL, category_id |-> NULL, status |-> "", role |-> "", active |-> FALSE]

UserFacts(id) ==
  IF id \in DOMAIN users
  THEN [NoFacts EXCEPT !.exists = TRUE, !.role = users[id].role, !.active = users[id].active]
  ELSE NoFacts

ProjectFacts(id) ==
  IF id \in DOMAIN projects
  THEN [NoFacts EXCEPT !.exists = TRUE, !.created_by = projects[id].created_by,
                       !.status = projects[id].status]
  ELSE NoFacts

\* LEFT JOIN projects p ON t.project_id = p.id: p.created_by is NULL without a project row
ProjectOwnerOf(t) ==
  IF tasks[t].project_id \in DOMAIN projects THEN projects[tasks[t].project_id].created_by ELSE NULL

TaskFacts(id) ==
  IF id \in DOMAIN tasks
  THEN [NoFacts EXCEPT !.exists = TRUE, !.created_by = tasks[id].created_by,
                       !.assigned_to = tasks[id].assigned_to,
                       !.project_owner = ProjectOwnerOf(id),
                       !.project_id = tasks[id].project_id,
                       !.category_id = tasks[id].category_id,
                       !.status = tasks[id].status]
  ELSE NoFacts

CategoryFacts(id) == [NoFacts EXCEPT !.exists = (id \in categories)]

\* f with key k removed
Remove(f, k) == [x \in DOMAIN f \ {k} |-> f[x]]
\* f with key k set to v
Put(f, k, v) == [x \in DOMAIN f \cup {k} |-> IF x = k THEN v ELSE f[x]]

RECURSIVE Repeat(_, _)
Repeat(x, n) == IF n = 0 THEN <<>> ELSE <<x>> \o Repeat(x, n - 1)

RECURSIVE SelectOut(_, _, _)
\* the records of sequence s whose field named by the selector differs from id
SelectOut(s, isTask, id) ==
  IF s = <<>> THEN <<>>
  ELSE LET h == Head(s)
           key == IF isTask THEN h.task_id ELSE h.project_id
       IN (IF key = id THEN <<>> ELSE <<h>>) \o SelectOut(Tail(s), isTask, id)

UploadedBy(u) ==
  (\E i \in 1..Len(task_files) : task_files[i].uploaded_by = u)
  \/ (\E i \in 1..Len(project_files) : project_files[i].uploaded_by = u)

\* ------------------------------------------------------------ tokens
\* The two signing keys of the deployment: the documented configuration sets them apart.
JWT_SECRET == "JWT_SECRET"
REFRESH_TOKEN_SECRET == "REFRESH_TOKEN_SECRET"

\* No token at all: an absent header or body field.
NoTok == [form |-> "none", sub |-> NULL, role |-> "", secret |-> "", exp |-> NULL]
\* A string that is not a JSON web token.
Garbage == [NoTok EXCEPT !.form = "garbage"]

\* jwt.sign(payload, secret, {expiresIn}): the payload, the key that signed it, and exp.
jwtSign(payload, secret, ttl) ==
  [form |-> "jwt", sub |-> payload.userId, role |-> payload.role, secret |-> secret,
   exp |-> now + ttl]

\* jwt.verify(token, secret): the signature is judged before the expiry.
jwtVerifyNoExpiry(tok, secret) ==
  IF tok.form # "jwt" \/ tok.secret # secret THEN "JsonWebTokenError"
  ELSE "ok"
jwtVerifyAnyKey(tok, secret) ==
  IF tok.form # "jwt" THEN "JsonWebTokenError"
  ELSE IF now >= tok.exp THEN "TokenExpiredError"
  ELSE "ok"
jwtVerify(tok, secret) ==
  IF tok.form # "jwt" \/ tok.secret # secret THEN "JsonWebTokenError"
  ELSE IF now >= tok.exp THEN "TokenExpiredError"
  ELSE "ok"

\* The tokens the client of user u holds since its last login or refresh.
AccessTokenOf(u) ==
  IF u \notin UserIds \/ session[u] = NoToken THEN NoTok
  ELSE [form |-> "jwt", sub |-> u, role |-> session[u], secret |-> JWT_SECRET,
        exp |-> accessExp[u]]
RefreshTokenOf(u) ==
  IF u \notin UserIds \/ refreshExp[u] = NULL THEN NoTok
  ELSE [form |-> "jwt", sub |-> u, role |-> "", secret |-> REFRESH_TOKEN_SECRET,
        exp |-> refreshExp[u]]
\* A token signed by somebody who has neither key, naming the first administrator.
Forged ==
  [form |-> "jwt", sub |-> 1, role |-> "admin", secret |-> "attacker", exp |-> MaxTime + 1]

\* What a client may put where a token is expected.
CredKinds == {"access", "refresh", "forged", "garbage", "none"}
Credential(u, c) ==
  CASE c = "access" -> AccessTokenOf(u)
    [] c = "refresh" -> RefreshTokenOf(u)
    [] c = "forged" -> Forged
    [] c = "garbage" -> Garbage
    [] OTHER -> NoTok

\* verify_access: signature and expiry only, the store is not consulted.
verify_accessDecodeOnly(tok) == IF tok.form = "jwt" THEN "ok" ELSE "JsonWebTokenError"
verify_access(tok) == jwtVerify(tok, JWT_SECRET)
\* The actor a request runs as: id and role are those of the bearer token.
ActorOf(tok) == [id |-> tok.sub, role |-> tok.role]
Actor(u) == ActorOf(AccessTokenOf(u))
authenticateToken(u) == verify_access(AccessTokenOf(u)) = "ok"
authorizeRoles(a, roles) == a.role \in roles

\* What a request body referred to, as the store had it when the request arrived.
NoBody == [project |-> TRUE, assignee |-> TRUE, category |-> TRUE]

BodyFacts(project_id, assigned_to, category_id) ==
  [project |-> project_id \in DOMAIN projects,
   assignee |-> assigned_to = NULL
                \/ (assigned_to \in DOMAIN users /\ users[assigned_to].active),
   category |-> category_id = NULL \/ category_id \in categories]

\* the fields of a user a request asks to set: none
NoAsk == [role |-> "", email |-> FALSE]

\* the tokens a response carries
NoMint == [access |-> NoTok, refresh |-> NoTok]

ReplyB(op, a, target, status, msg, pre, body) ==
  resp' = [op |-> op, uid |-> a.id, role |-> a.role, target |-> target, status |-> status,
           msg |-> msg, pre |-> pre, body |-> body, tasks |-> {}, projects |-> {},
           files |-> 0, cred |-> AccessTokenOf(a.id), at |-> now, minted |-> NoMint, ask |-> NoAsk]

\* the response to an upload of n files
ReplyU(op, a, target, status, msg, pre, n) ==
  resp' = [op |-> op, uid |-> a.id, role |-> a.role, target |-> target, status |-> status,
           msg |-> msg, pre |-> pre, body |-> NoBody, tasks |-> {}, projects |-> {},
           files |-> n, cred |-> AccessTokenOf(a.id), at |-> now, minted |-> NoMint, ask |-> NoAsk]

Reply(op, a, target, status, msg, pre, shownTasks, shownProjects) ==
  resp' = [op |-> op, uid |-> a.id, role |-> a.role, target |-> target, status |-> status,
           msg |-> msg, pre |-> pre, body |-> NoBody,
           tasks |-> shownTasks, projects |-> shownProjects, files |-> 0,
           cred |-> AccessTokenOf(a.id), at |-> now, minted |-> NoMint, ask |-> NoAsk]

\* the response of a route of routes/auth.js: the credential it was given, the actor it
\* ran as, and the tokens it returns
ReplyA(op, a, target, status, msg, pre, cred, minted) ==
  resp' = [op |-> op, uid |-> a.id, role |-> a.role, target |-> target, status |-> status,
           msg |-> msg, pre |-> pre, body |-> NoBody, tasks |-> {}, projects |-> {},
           files |-> 0, cred |-> cred, at |-> now, minted |-> minted,
           ask |-> NoAsk]

\* the response to a request that asks to set fields of a user
ReplyQ(op, a, target, status, msg, pre, ask) ==
  resp' = [op |-> op, uid |-> a.id, role |-> a.role, target |-> target, status |-> status,
           msg |-> msg, pre |-> pre, body |-> NoBody, tasks |-> {}, projects |-> {},
           files |-> 0, cred |-> AccessTokenOf(a.id), at |-> now, minted |-> NoMint,
           ask |-> ask]

Anonymous == [id |-> NULL, role |-> ""]

\* No response is outstanding: the client is free to send a request.
Idle == [op |-> "idle", uid |-> NULL, role |-> "", target |-> NULL, status |-> 0,
         msg |-> "", pre |-> NoFacts, body |-> NoBody, tasks |-> {}, projects |-> {},
         files |-> 0, cred |-> NoTok, at |-> NULL, minted |-> NoMint, ask |-> NoAsk]

\* The client holds no unread response: requests go out one at a time.
Ready == resp = Idle

\* A request that creates, changes or deletes a resource is sent only while the run's
\* budget lasts; the last_login stamp of a login is not counted.
Commit == /\ commits < budget
          /\ commits' = commits + 1
          /\ UNCHANGED inflight
NoCommit == commits' = commits /\ UNCHANGED inflight

InitState ==
  /\ users = (1 :> [email |-> 1, password |-> 1, role |-> "admin", active |-> TRUE,
                     last_login |-> NULL, avatar |-> NULL])
  /\ projects = <<>>
  /\ tasks = <<>>
  /\ categories = 1..NumDefaultCats
  /\ task_files = <<>>
  /\ project_files = <<>>
  /\ disk = 0
  /\ nextUser = 2
  /\ nextProject = 1
  /\ nextTask = 1
  /\ nextCat = NumDefaultCats + 1
  /\ session = [u \in UserIds |-> NoToken]
  /\ accessExp = [u \in UserIds |-> NULL]
  /\ refreshExp = [u \in UserIds |-> NULL]
  /\ now = 1
  /\ commits = 0
  /\ calls = <<>>
  /\ resp = Idle

\* One request at a time.
Init == InitState /\ budget = MaxCommits

\* ------------------------------------------------------------ routes/auth.js
EmailOwner(email) == {u \in DOMAIN users : users[u].email = email}

\* Addresses a request may carry: every address in use and one that is not.
UnusedEmails == {e \in Emails : EmailOwner(e) = {}}
EmailInputs ==
  {e \in Emails : EmailOwner(e) # {} \/ \A f \in UnusedEmails : e <= f}

Register(email, password, role) ==
  /\ Ready
  /\ IF EmailOwner(email) # {}
     THEN /\ Reply("register", Anonymous, NULL, 409, "Email already registered", NoFacts, {}, {})
          /\ NoCommit
          /\ UNCHANGED <<store, counters, tokens>>
     ELSE /\ nextUser <= MaxUsers
          /\ users' = Put(users, nextUser,
                          [email |-> email, password |-> password, role |-> role, active |-> TRUE,
                           last_login |-> NULL, avatar |-> NULL])
          /\ nextUser' = nextUser + 1
          /\ Reply("register", Anonymous, nextUser, 201, "User registered successfully", NoFacts, {}, {})
          /\ Commit
          /\ UNCHANGED <<projects, tasks, categories, task_files, project_files, disk,
                         nextProject, nextTask, nextCat, tokens>>

\* What a login request carries: the email names the subject, the password is the secret.
PasswordCred(email, password) ==
  [form |-> "password", sub |-> email, role |-> "", secret |-> password, exp |-> NULL]

\* bcrypt.compare(password, user.password)
isValidPasswordAlways(password, stored) == TRUE
isValidPassword(password, stored) == password = stored

Login(email, password) ==
  /\ Ready
  /\ LET found == EmailOwner(email) IN
     IF found = {}
     THEN /\ ReplyA("login", Anonymous, NULL, 401, "Invalid credentials", NoFacts,
                    PasswordCred(email, password), NoMint)
          /\ NoCommit
          /\ UNCHANGED <<store, counters, tokens>>
     ELSE LET u == CHOOSE x \in found : TRUE IN
          IF ~users[u].active
          THEN /\ ReplyA("login", Anonymous, u, 401, "Account is deactivated", UserFacts(u),
                         PasswordCred(email, password), NoMint)
               /\ NoCommit
               /\ UNCHANGED <<store, counters, tokens>>
          ELSE IF ~isValidPassword(password, users[u].password)
          THEN /\ ReplyA("login", Anonymous, u, 401, "Invalid credentials", UserFacts(u),
                         PasswordCred(email, password), NoMint)
               /\ NoCommit
               /\ UNCHANGED <<store, counters, tokens>>
          ELSE LET accessToken == jwtSign([userId |-> u, role |-> users[u].role],
                                          JWT_SECRET, AccessTTL)
                   refreshToken == jwtSign([userId |-> u, role |-> ""],
                                           REFRESH_TOKEN_SECRET, RefreshTTL)
               IN /\ users' = [users EXCEPT ![u].last_login = now]
                  /\ session' = [session EXCEPT ![u] = accessToken.role]
                  /\ accessExp' = [accessExp EXCEPT ![u] = accessToken.exp]
                  /\ refreshExp' = [refreshExp EXCEPT ![u] = refreshToken.exp]
                  /\ ReplyA("login", Anonymous, u, 200, "Login successful", UserFacts(u),
                            PasswordCred(email, password),
                            [access |-> accessToken, refresh |-> refreshToken])
                  /\ NoCommit
                  /\ UNCHANGED <<projects, tasks, categories, task_files, project_files, disk,
                                 counters, now>>

\* The global error handler: only an error named JsonWebTokenError is turned into a 401,
\* every other error without a statusCode is answered 500 with its own message.
errorHandler(name) ==
  IF name = "JsonWebTokenError" THEN [status |-> 401, msg |-> "Invalid token"]
  ELSE [status |-> 500, msg |-> "jwt expired"]

\* The subject lookup of POST /refresh: SELECT ... WHERE id = ? AND is_active = 1
RefreshRowsAnyStatus(id) == {x \in DOMAIN users : x = id}
RefreshRows(id) == {x \in DOMAIN users : x = id /\ users[x].active}

\* The role a refresh writes into the new access token: the one it has just read.
RefreshedRoleOfOldToken(id) == IF session[id] = NoToken THEN users[id].role ELSE session[id]
RefreshedRole(id) == users[id].role

\* POST /refresh: the client of user u sends credential c as its refreshToken.
Refresh(u, c) ==
  /\ Ready
  /\ LET refreshToken == Credential(u, c)
         verdict == jwtVerify(refreshToken, REFRESH_TOKEN_SECRET)
         id == refreshToken.sub
     IN
     IF refreshToken.form = "none"
     THEN /\ ReplyA("refresh", Anonymous, NULL, 401, "Refresh token required", NoFacts,
                    refreshToken, NoMint)
          /\ UNCHANGED tokens
     ELSE IF verdict # "ok"
     THEN /\ ReplyA("refresh", Anonymous, NULL, errorHandler(verdict).status,
                    errorHandler(verdict).msg, NoFacts, refreshToken, NoMint)
          /\ UNCHANGED tokens
     ELSE IF RefreshRows(id) = {}
     THEN /\ ReplyA("refresh", Anonymous, id, 401, "Invalid refresh token", UserFacts(id),
                    refreshToken, NoMint)
          /\ UNCHANGED tokens
     ELSE LET newAccessToken == jwtSign([userId |-> id, role |-> RefreshedRole(id)],
                                        JWT_SECRET, AccessTTL)
          IN /\ session' = [session EXCEPT ![id] = newAccessToken.role]
             /\ accessExp' = [accessExp EXCEPT ![id] = newAccessToken.exp]
             /\ ReplyA("refresh", Anonymous, id, 200, "", UserFacts(id), refreshToken,
                       [access |-> newAccessToken, refresh |-> NoTok])
             /\ UNCHANGED <<refreshExp, now>>
  /\ NoCommit
  /\ UNCHANGED <<store, counters>>

\* What the token check answers to a bearer credential it does not accept.
Reject(op, bearer) ==
  ReplyA(op, Anonymous, NULL, 401,
         IF verify_access(bearer) = "TokenExpiredError" THEN "Expired" ELSE "InvalidToken",
         NoFacts, bearer, NoMint)

\* GET /profile: the client of user u sends credential c as its bearer token.
Profile(u, c) ==
  /\ Ready
  /\ LET bearer == Credential(u, c) IN
     IF verify_access(bearer) # "ok"
     THEN Reject("profile", bearer)
     ELSE ReplyA("profile", ActorOf(bearer), bearer.sub, 200, "", UserFacts(bearer.sub),
                 bearer, NoMint)
  /\ NoCommit
  /\ UNCHANGED <<store, counters, tokens>>

\* A logout that would keep a list of revoked subjects: the handler has none.
LogoutEffectRevoking(a) ==
  /\ session' = [session EXCEPT ![a.id] = NoToken]
  /\ UNCHANGED <<accessExp, refreshExp, now>>
\* What POST /logout does to the tokens in circulation: nothing.
LogoutEffect(a) == UNCHANGED tokens

\* POST /logout
Logout(u, c) ==
  /\ Ready
  /\ LET bearer == Credential(u, c) IN
     IF verify_access(bearer) # "ok"
     THEN /\ Reject("logout", bearer)
          /\ UNCHANGED tokens
     ELSE /\ ReplyA("logout", ActorOf(bearer), NULL, 200, "Logged out successfully", NoFacts,
                    bearer, NoMint)
          /\ LogoutEffect(ActorOf(bearer))
  /\ NoCommit
  /\ UNCHANGED <<store, counters>>

\* The routes that stand behind the token check.
ProtectedRoutes ==
  {"profile", "logout", "updateUser", "changePassword", "deactivateUser", "activateUser",
   "deleteUser", "uploadAvatar", "listProjects", "getProject", "createProject", "updateProject",
   "deleteProject", "uploadProject", "listTasks", "getTask", "createTask", "updateTask",
   "setTaskStatus", "deleteTask", "uploadTask", "getCategory", "createCategory",
   "updateCategory", "deleteCategory"}

\* A request to a protected route whose bearer credential the token check turns down:
\* the route's handler is never entered.
Unauthenticated(u, c, op) ==
  /\ Ready
  /\ verify_access(Credential(u, c)) # "ok"
  /\ Reject(op, Credential(u, c))
  /\ NoCommit
  /\ UNCHANGED <<store, counters, tokens>>

\* Time passes.
Tick ==
  /\ Ready
  /\ now < MaxTime
  /\ now' = now + 1
  /\ UNCHANGED <<store, counters, session, accessExp, refreshExp, commits, inflight, resp>>

\* ------------------------------------------- routes/projects.js (user routes)
\* PUT /users/:id.  email = NULL and role = "" stand for fields left out of the body.
RoleGuardOff(a, role) == FALSE
\* "Only admins can change user roles"
RoleGuard(a, role) == role # "" /\ a.role # "admin"

UpdateUser(u, id, nameGiven, email, role) ==
  /\ Ready
  /\ authenticateToken(u)
  /\ LET a == Actor(u)
         pre == UserFacts(id)
         op == "updateUser"
         ask == [role |-> role, email |-> email # NULL]
     IN
     IF a.id # id /\ a.role # "admin"
     THEN /\ ReplyQ(op, a, id, 403, "Access denied", pre, ask)
          /\ NoCommit /\ UNCHANGED <<store, counters, tokens>>
     ELSE IF RoleGuard(a, role)
     THEN /\ ReplyQ(op, a, id, 403, "Only admins can change user roles", pre, ask)
          /\ NoCommit /\ UNCHANGED <<store, counters, tokens>>
     ELSE IF id \notin DOMAIN users
     THEN /\ ReplyQ(op, a, id, 404, "User not found", pre, ask)
          /\ NoCommit /\ UNCHANGED <<store, counters, tokens>>
     ELSE IF ~nameGiven /\ email = NULL /\ ~(role # "" /\ a.role = "admin")
     THEN /\ ReplyQ(op, a, id, 400, "No valid updates provided", pre, ask)
          /\ NoCommit /\ UNCHANGED <<store, counters, tokens>>
     ELSE IF email # NULL /\ EmailOwner(email) \ {id} # {}
     THEN \* UNIQUE(email): ER_DUP_ENTRY, mapped to 409 by the error handler
          /\ ReplyQ(op, a, id, 409, "Resource already exists", pre, ask)
          /\ NoCommit /\ UNCHANGED <<store, counters, tokens>>
     ELSE /\ users' = [users EXCEPT
                         ![id].email = IF email # NULL THEN email ELSE @,
                         ![id].role = IF role # "" /\ a.role = "admin" THEN role ELSE @]
          /\ ReplyQ(op, a, id, 200, "User updated successfully", pre, ask)
          /\ Commit
          /\ UNCHANGED <<projects, tasks, categories, task_files, project_files, disk,
                         counters, tokens>>

\* PATCH /users/:id/password.  new = NULL is a password shorter than 8 characters,
\* cur = NULL a request without currentPassword.
ChangePassword(u, id, cur, new) ==
  /\ Ready
  /\ authenticateToken(u)
  /\ LET a == Actor(u)
         pre == UserFacts(id)
         op == "changePassword"
     IN
     IF a.id # id /\ a.role # "admin"
     THEN /\ Reply(op, a, id, 403, "Access denied", pre, {}, {})
          /\ NoCommit /\ UNCHANGED <<store, counters, tokens>>
     ELSE IF new = NULL
     THEN /\ Reply(op, a, id, 400, "New password must be at least 8 characters long", pre, {}, {})
          /\ NoCommit /\ UNCHANGED <<store, counters, tokens>>
     ELSE IF id \notin DOMAIN users
     THEN /\ Reply(op, a, id, 404, "User not found", pre, {}, {})
          /\ NoCommit /\ UNCHANGED <<store, counters, tokens>>
     ELSE IF a.role # "admin" /\ cur = NULL
     THEN /\ Reply(op, a, id, 400, "Current password is required", pre, {}, {})
          /\ NoCommit /\ UNCHANGED <<store, counters, tokens>>
     ELSE IF a.role # "admin" /\ cur # users[id].password
     THEN /\ Reply(op, a, id, 400, "Current password is incorrect", pre, {}, {})
          /\ NoCommit /\ UNCHANGED <<store, counters, tokens>>
     ELSE /\ users' = [users EXCEPT ![id].password = new]
          /\ Reply(op, a, id, 200, "Password updated successfully", pre, {}, {})
          /\ Commit
          /\ UNCHANGED <<projects, tasks, categories, task_files, project_files, disk,
                         counters, tokens>>

SelfGuardOff(a, id) == FALSE

\* "Cannot deactivate your own account", "Cannot delete your own account"
SelfGuard(a, id) == a.id = id

SetActive(u, id, flag) ==
  /\ Ready
  /\ authenticateToken(u)
  /\ LET a == Actor(u)
         pre == UserFacts(id)
         op == IF flag THEN "activateUser" ELSE "deactivateUser"
     IN
     IF ~authorizeRoles(a, {"admin"})
     THEN /\ Reply(op, a, id, 403, "Insufficient permissions", pre, {}, {})
          /\ NoCommit /\ UNCHANGED <<store, counters, tokens>>
     ELSE IF ~flag /\ SelfGuard(a, id)
     THEN /\ Reply(op, a, id, 400, "Cannot deactivate your own account", pre, {}, {})
          /\ NoCommit /\ UNCHANGED <<store, counters, tokens>>
     ELSE IF id \notin DOMAIN users
     THEN \* affectedRows = 0
          /\ Reply(op, a, id, 404, "User not found", pre, {}, {})
          /\ NoCommit /\ UNCHANGED <<store, counters, tokens>>
     ELSE /\ users' = [users EXCEPT ![id].active = flag]
          /\ Reply(op, a, id, 200, "User status updated", pre, {}, {})
          /\ Commit
          /\ UNCHANGED <<projects, tasks, categories, task_files, project_files, disk,
                         counters, tokens>>

\* DELETE /users/:id
DeleteUser(u, id) ==
  /\ Ready
  /\ authenticateToken(u)
  /\ LET a == Actor(u)
         pre == UserFacts(id)
         op == "deleteUser"
     IN
     IF ~authorizeRoles(a, {"admin"})
     THEN /\ Reply(op, a, id, 403, "Insufficient permissions", pre, {}, {})
          /\ NoCommit /\ UNCHANGED <<store, counters, tokens>>
     ELSE IF SelfGuard(a, id)
     THEN /\ Reply(op, a, id, 400, "Cannot delete your own account", pre, {}, {})
          /\ NoCommit /\ UNCHANGED <<store, counters, tokens>>
     ELSE IF (\E p \in DOMAIN projects : projects[p].created_by = id)
             \/ (\E t \in DOMAIN tasks : tasks[t].created_by = id)
     THEN /\ Reply(op, a, id, 400, "Cannot delete user who has created projects or tasks", pre, {}, {})
          /\ NoCommit /\ UNCHANGED <<store, counters, tokens>>
     ELSE IF id \notin DOMAIN users
     THEN /\ Reply(op, a, id, 404, "User not found", pre, {}, {})
          /\ NoCommit /\ UNCHANGED <<store, counters, tokens>>
     ELSE IF UploadedBy(id)
     THEN \* uploaded_by ... ON DELETE RESTRICT: the DELETE throws, the error handler answers 500
          /\ Reply(op, a, id, 500, "Cannot delete or update a parent row", pre, {}, {})
          /\ NoCommit /\ UNCHANGED <<store, counters, tokens>>
     ELSE /\ users' = Remove(users, id)
          \* tasks.assigned_to ... ON DELETE SET NULL
          /\ tasks' = [t \in DOMAIN tasks |->
                         IF tasks[t].assigned_to = id
                         THEN [tasks[t] EXCEPT !.assigned_to = NULL] ELSE tasks[t]]
          /\ Reply(op, a, id, 200, "User deleted successfully", pre, {}, {})
          /\ Commit
          /\ UNCHANGED <<projects, categories, task_files, project_files, disk,
                         counters, tokens>>

\* multer stores the request's files before the route handler runs
StoreFiles(n) == /\ disk' = disk + n
                 /\ IF n > 0 THEN Commit ELSE NoCommit

SelfOrAdminAnyone(a, id) == TRUE
\* "Users can only ... their own ... unless they're admin"
SelfOrAdmin(a, id) == a.id = id \/ a.role = "admin"

\* POST /users/:id/avatar with n files in the 'avatar' field; the file the user's
\* avatar_url names is the one multer has just stored
UploadAvatar(u, id, n) ==
  /\ Ready
  /\ authenticateToken(u)
  /\ StoreFiles(n)
  /\ LET a == Actor(u)
         pre == UserFacts(id)
         op == "uploadAvatar"
     IN
     IF ~SelfOrAdmin(a, id)
     THEN /\ ReplyU(op, a, id, 403, "Access denied", pre, n)
          /\ UNCHANGED users
     ELSE IF id \notin DOMAIN users
     THEN /\ ReplyU(op, a, id, 404, "User not found", pre, n)
          /\ UNCHANGED users
     ELSE IF n = 0
     THEN /\ ReplyU(op, a, id, 400, "No avatar file uploaded", pre, n)
          /\ UNCHANGED users
     ELSE /\ users' = [users EXCEPT ![id].avatar = disk']
          /\ ReplyU(op, a, id, 200, "Avatar uploaded successfully", pre, n)
  /\ UNCHANGED <<projects, tasks, categories, task_files, project_files, counters, tokens>>

\* -------------------------------------------- routes/projects.js (projects)

\* for (const file of req.files) { await db.execute(INSERT ...) }: the records the loop
\* has written when it ends; bad = 0 when every INSERT succeeds, else the INSERT that
\* throws (a value the column rejects, a lost connection); there is no transaction
InsertLoop(rec, n, bad) == Repeat(rec, IF bad = 0 THEN n ELSE bad - 1)

TasksOfProject(id) == {t \in DOMAIN tasks : tasks[t].project_id = id}

\* GET /projects: the role-based filter of the list query
ProjectListScope(a, p) ==
  a.role = "user" =>
    \/ projects[p].created_by = a.id
    \/ p \in {tasks[t].project_id : t \in {x \in DOMAIN tasks : tasks[x].assigned_to = a.id}}

ProjectByIdScopeOwnerOnly(a, p) ==
  a.role = "user" => projects[p].created_by = a.id

\* GET /projects/:id: the role-based access control of the by-id query
ProjectByIdScope(a, p) ==
  a.role = "user" =>
    \/ projects[p].created_by = a.id
    \/ p \in {tasks[t].project_id : t \in {x \in DOMAIN tasks : tasks[x].assigned_to = a.id}}

ListProjectsRows(a) == {p \in DOMAIN projects : ProjectListScope(a, p)}
GetProjectRows(a, id) == {p \in DOMAIN projects : p = id /\ ProjectByIdScope(a, p)}

ListProjects(u) ==
  /\ Ready
  /\ authenticateToken(u)
  /\ Reply("listProjects", Actor(u), NULL, 200, "", NoFacts, {}, ListProjectsRows(Actor(u)))
  /\ NoCommit /\ UNCHANGED <<store, counters, tokens>>

GetProject(u, id) ==
  /\ Ready
  /\ authenticateToken(u)
  /\ LET a == Actor(u)
         pre == ProjectFacts(id)
     IN
     IF GetProjectRows(a, id) = {}
     THEN Reply("getProject", a, id, 404, "Project not found or access denied", pre, {}, {})
     ELSE Reply("getProject", a, id, 200, "", pre, TasksOfProject(id), {id})
  /\ NoCommit /\ UNCHANGED <<store, counters, tokens>>

\* POST /projects
CreateProject(u, status) ==
  /\ Ready
  /\ authenticateToken(u)
  /\ LET a == Actor(u)
         op == "createProject"
     IN
     IF ~authorizeRoles(a, {"admin", "manager"})
     THEN /\ Reply(op, a, NULL, 403, "Insufficient permissions", NoFacts, {}, {})
          /\ NoCommit /\ UNCHANGED <<store, counters, tokens>>
     ELSE IF a.id \notin DOMAIN users
     THEN \* created_by REFERENCES users(id): ER_NO_REFERENCED_ROW_2
          /\ Reply(op, a, NULL, 400, "Referenced resource does not exist", NoFacts, {}, {})
          /\ NoCommit /\ UNCHANGED <<store, counters, tokens>>
     ELSE /\ nextProject <= MaxProjects
          /\ projects' = Put(projects, nextProject,
                              [created_by |-> a.id,
                               \* schemas.project: status defaults to 'planning'
                               status |-> IF status = "" THEN "planning" ELSE status])
          /\ nextProject' = nextProject + 1
          /\ Reply(op, a, nextProject, 201, "Project created successfully", NoFacts, {}, {})
          /\ Commit
          /\ UNCHANGED <<users, tasks, categories, task_files, project_files, disk,
                         nextUser, nextTask, nextCat, tokens>>

ProjectWriteRowsAnyManager(a, id) == {p \in DOMAIN projects : p = id}

\* The check query of PUT, DELETE and upload: a manager only finds own projects
ProjectWriteRows(a, id) ==
  {p \in DOMAIN projects : p = id /\ (a.role = "manager" => projects[p].created_by = a.id)}

\* PUT /projects/:id
UpdateProject(u, id, status) ==
  /\ Ready
  /\ authenticateToken(u)
  /\ LET a == Actor(u)
         pre == ProjectFacts(id)
         op == "updateProject"
     IN
     IF ~authorizeRoles(a, {"admin", "manager"})
     THEN /\ Reply(op, a, id, 403, "Insufficient permissions", pre, {}, {})
          /\ NoCommit /\ UNCHANGED <<store, counters, tokens>>
     ELSE IF ProjectWriteRows(a, id) = {}
     THEN /\ Reply(op, a, id, 404, "Project not found or access denied", pre, {}, {})
          /\ NoCommit /\ UNCHANGED <<store, counters, tokens>>
     ELSE /\ projects' = [projects EXCEPT ![id].status = status]
          /\ Reply(op, a, id, 200, "Project updated successfully", pre, {}, {})
          /\ Commit
          /\ UNCHANGED <<users, tasks, categories, task_files, project_files, disk,
                         counters, tokens>>

\* DELETE /projects/:id
DeleteProject(u, id) ==
  /\ Ready
  /\ authenticateToken(u)
  /\ LET a == Actor(u)
         pre == ProjectFacts(id)
         op == "deleteProject"
     IN
     IF ~authorizeRoles(a, {"admin", "manager"})
     THEN /\ Reply(op, a, id, 403, "Insufficient permissions", pre, {}, {})
          /\ NoCommit /\ UNCHANGED <<store, counters, tokens>>
     ELSE IF ProjectWriteRows(a, id) = {}
     THEN /\ Reply(op, a, id, 404, "Project not found or access denied", pre, {}, {})
          /\ NoCommit /\ UNCHANGED <<store, counters, tokens>>
     ELSE IF TasksOfProject(id) # {}
     THEN /\ Reply(op, a, id, 400, "Cannot delete project with existing tasks", pre, {}, {})
          /\ NoCommit /\ UNCHANGED <<store, counters, tokens>>
     ELSE /\ projects' = Remove(projects, id)
          \* project_files.project_id ... ON DELETE CASCADE
          /\ project_files' = SelectOut(project_files, FALSE, id)
          /\ Reply(op, a, id, 200, "Project deleted successfully", pre, {}, {})
          /\ Commit
          /\ UNCHANGED <<users, tasks, categories, task_files, disk, counters, tokens>>

\* POST /projects/:id/upload with n files
UploadProject(u, id, n, bad) ==
  /\ Ready
  /\ authenticateToken(u)
  /\ LET a == Actor(u)
         pre == ProjectFacts(id)
         op == "uploadProject"
     IN
     IF ~authorizeRoles(a, {"admin", "manager"})
     THEN /\ ReplyU(op, a, id, 403, "Insufficient permissions", pre, n)
          /\ NoCommit /\ UNCHANGED <<store, counters, tokens>>
     ELSE /\ StoreFiles(n)
          /\ UNCHANGED <<users, projects, tasks, categories, task_files, counters, tokens>>
          /\ IF ProjectWriteRows(a, id) = {}
             THEN /\ ReplyU(op, a, id, 404, "Project not found or access denied", pre, n)
                  /\ UNCHANGED project_files
             ELSE IF n = 0
             THEN /\ ReplyU(op, a, id, 400, "No files uploaded", pre, n)
                  /\ UNCHANGED project_files
             ELSE IF a.id \notin DOMAIN users
             THEN \* uploaded_by REFERENCES users(id): the first INSERT throws
                  /\ ReplyU(op, a, id, 400, "Referenced resource does not exist", pre, n)
                  /\ UNCHANGED project_files
             ELSE /\ project_files' =
                       project_files \o InsertLoop([project_id |-> id, uploaded_by |-> a.id], n, bad)
                  /\ IF bad = 0
                     THEN ReplyU(op, a, id, 200, "file(s) uploaded successfully", pre, n)
                     ELSE ReplyU(op, a, id, 500, "Internal Server Error", pre, n)

\* ------------------------------------------------------------ routes/tasks.js
\* GET /tasks: the role-based filter of the list query
TaskListScope(a, t) ==
  a.role = "user" =>
    \/ tasks[t].assigned_to = a.id
    \/ tasks[t].created_by = a.id
    \/ ProjectOwnerOf(t) = a.id

TaskByIdScopeCreatorOnly(a, t) ==
  a.role = "user" => tasks[t].created_by = a.id

\* GET /tasks/:id: the role-based access control of the by-id query
TaskByIdScope(a, t) ==
  a.role = "user" =>
    \/ tasks[t].assigned_to = a.id
    \/ tasks[t].created_by = a.id
    \/ ProjectOwnerOf(t) = a.id

ListTasksRows(a) == {t \in DOMAIN tasks : TaskListScope(a, t)}
GetTaskRows(a, id) == {t \in DOMAIN tasks : t = id /\ TaskByIdScope(a, t)}

ListTasks(u) ==
  /\ Ready
  /\ authenticateToken(u)
  /\ Reply("listTasks", Actor(u), NULL, 200, "", NoFacts, ListTasksRows(Actor(u)), {})
  /\ NoCommit /\ UNCHANGED <<store, counters, tokens>>

GetTask(u, id) ==
  /\ Ready
  /\ authenticateToken(u)
  /\ LET a == Actor(u)
         pre == TaskFacts(id)
     IN
     IF GetTaskRows(a, id) = {}
     THEN Reply("getTask", a, id, 404, "Task not found or access denied", pre, {}, {})
     ELSE Reply("getTask", a, id, 200, "", pre, {id}, {})
  /\ NoCommit /\ UNCHANGED <<store, counters, tokens>>

CreateTaskProjectRowsAnyUser(a, project_id) == {p \in DOMAIN projects : p = project_id}

\* POST /tasks: "Verify project exists and user has access"
CreateTaskProjectRows(a, project_id) ==
  {p \in DOMAIN projects : p = project_id /\ (a.role = "user" => projects[p].created_by = a.id)}

\* SELECT id FROM users WHERE id = ? AND is_active = 1
ActiveUserRows(id) == {x \in DOMAIN users : x = id /\ users[x].active}

CategoryRowsUnchecked(id) == {id}

\* SELECT id FROM categories WHERE id = ?
CategoryRows(id) == {c \in categories : c = id}

CreateTask(u, project_id, assigned_to, category_id, status) ==
  /\ Ready
  /\ authenticateToken(u)
  /\ LET a == Actor(u)
         pre == ProjectFacts(project_id)
         body == BodyFacts(project_id, assigned_to, category_id)
         op == "createTask"
     IN
     IF CreateTaskProjectRows(a, project_id) = {}
     THEN /\ ReplyB(op, a, NULL, 404, "Project not found or access denied", pre, body)
          /\ NoCommit /\ UNCHANGED <<store, counters, tokens>>
     ELSE IF assigned_to # NULL /\ ActiveUserRows(assigned_to) = {}
     THEN /\ ReplyB(op, a, NULL, 400, "Assigned user not found or inactive", pre, body)
          /\ NoCommit /\ UNCHANGED <<store, counters, tokens>>
     ELSE IF category_id # NULL /\ CategoryRows(category_id) = {}
     THEN /\ ReplyB(op, a, NULL, 400, "Category not found", pre, body)
          /\ NoCommit /\ UNCHANGED <<store, counters, tokens>>
     ELSE IF a.id \notin DOMAIN users
     THEN \* created_by REFERENCES users(id): ER_NO_REFERENCED_ROW_2
          /\ ReplyB(op, a, NULL, 400, "Referenced resource does not exist", pre, body)
          /\ NoCommit /\ UNCHANGED <<store, counters, tokens>>
     ELSE /\ nextTask <= MaxTasks
          /\ tasks' = Put(tasks, nextTask,
                          [project_id |-> project_id, assigned_to |-> assigned_to,
                           category_id |-> category_id,
                           \* status || 'todo'
                           status |-> IF status = "" THEN "todo" ELSE status,
                           created_by |-> a.id])
          /\ nextTask' = nextTask + 1
          /\ ReplyB(op, a, nextTask, 201, "Task created successfully", pre, body)
          /\ Commit
          /\ UNCHANGED <<users, projects, categories, task_files, project_files, disk,
                         nextUser, nextProject, nextCat, tokens>>

canEditNoProjectOwner(a, task) ==
  \/ a.role = "admin"
  \/ task.created_by = a.id
  \/ task.assigned_to = a.id

\* PUT /tasks/:id: the permission check on the row of the check query
canEdit(a, task) ==
  \/ a.role = "admin"
  \/ task.created_by = a.id
  \/ task.assigned_to = a.id
  \/ task.project_owner = a.id

UpdateTask(u, id, project_id, assigned_to, category_id, status) ==
  /\ Ready
  /\ authenticateToken(u)
  /\ LET a == Actor(u)
         pre == TaskFacts(id)
         body == BodyFacts(project_id, assigned_to, category_id)
         op == "updateTask"
     IN
     IF id \notin DOMAIN tasks
     THEN /\ ReplyB(op, a, id, 404, "Task not found", pre, body)
          /\ NoCommit /\ UNCHANGED <<store, counters, tokens>>
     ELSE IF ~canEdit(a, TaskFacts(id))
     THEN /\ ReplyB(op, a, id, 403, "Access denied", pre, body)
          /\ NoCommit /\ UNCHANGED <<store, counters, tokens>>
     ELSE IF project_id \notin DOMAIN projects
     THEN /\ ReplyB(op, a, id, 400, "Project not found", pre, body)
          /\ NoCommit /\ UNCHANGED <<store, counters, tokens>>
     ELSE IF assigned_to # NULL /\ ActiveUserRows(assigned_to) = {}
     THEN /\ ReplyB(op, a, id, 400, "Assigned user not found or inactive", pre, body)
          /\ NoCommit /\ UNCHANGED <<store, counters, tokens>>
     ELSE IF category_id # NULL /\ CategoryRows(category_id) = {}
     THEN /\ ReplyB(op, a, id, 400, "Category not found", pre, body)
          /\ NoCommit /\ UNCHANGED <<store, counters, tokens>>
     ELSE /\ tasks' = [tasks EXCEPT ![id] =
                         [@ EXCEPT !.project_id = project_id, !.assigned_to = assigned_to,
                                   !.category_id = category_id, !.status = status]]
          /\ ReplyB(op, a, id, 200, "Task updated successfully", pre, body)
          /\ Commit
          /\ UNCHANGED <<users, projects, categories, task_files, project_files, disk,
                         counters, tokens>>

canEditStatusNoAdmin(a, task) ==
  \/ task.created_by = a.id
  \/ task.assigned_to = a.id
  \/ task.project_owner = a.id

\* PATCH /tasks/:id/status: its own copy of the permission check
canEditStatus(a, task) ==
  \/ a.role = "admin"
  \/ task.created_by = a.id
  \/ task.assigned_to = a.id
  \/ task.project_owner = a.id

SetTaskStatus(u, id, status) ==
  /\ Ready
  /\ authenticateToken(u)
  /\ LET a == Actor(u)
         pre == TaskFacts(id)
         op == "setTaskStatus"
     IN
     IF status \notin TaskStatuses
     THEN /\ Reply(op, a, id, 400, "Invalid status", pre, {}, {})
          /\ NoCommit /\ UNCHANGED <<store, counters, tokens>>
     ELSE IF id \notin DOMAIN tasks
     THEN /\ Reply(op, a, id, 404, "Task not found", pre, {}, {})
          /\ NoCommit /\ UNCHANGED <<store, counters, tokens>>
     ELSE IF ~canEditStatus(a, TaskFacts(id))
     THEN /\ Reply(op, a, id, 403, "Access denied", pre, {}, {})
          /\ NoCommit /\ UNCHANGED <<store, counters, tokens>>
     ELSE /\ tasks' = [tasks EXCEPT ![id].status = status]
          /\ Reply(op, a, id, 200, "Task status updated successfully", pre, {}, {})
          /\ Commit
          /\ UNCHANGED <<users, projects, categories, task_files, project_files, disk,
                         counters, tokens>>

DeleteTaskRowsUnchecked(id) == {id}

\* DELETE /tasks/:id: the check query
DeleteTaskRows(id) == {t \in DOMAIN tasks : t = id}

canDeleteCreatorOnly(a, task) ==
  \/ a.role = "admin"
  \/ task.created_by = a.id

\* DELETE /tasks/:id: "only creators, project owners, and admins can delete"
canDelete(a, task) ==
  \/ a.role = "admin"
  \/ task.created_by = a.id
  \/ task.project_owner = a.id

DeleteTask(u, id) ==
  /\ Ready
  /\ authenticateToken(u)
  /\ LET a == Actor(u)
         pre == TaskFacts(id)
         op == "deleteTask"
     IN
     IF DeleteTaskRows(id) = {}
     THEN /\ Reply(op, a, id, 404, "Task not found", pre, {}, {})
          /\ NoCommit /\ UNCHANGED <<store, counters, tokens>>
     ELSE IF ~canDelete(a, TaskFacts(id))
     THEN /\ Reply(op, a, id, 403, "Access denied", pre, {}, {})
          /\ NoCommit /\ UNCHANGED <<store, counters, tokens>>
     ELSE /\ tasks' = Remove(tasks, id)
          \* task_files.task_id ... ON DELETE CASCADE
          /\ task_files' = SelectOut(task_files, TRUE, id)
          /\ Reply(op, a, id, 200, "Task deleted successfully", pre, {}, {})
          /\ Commit
          /\ UNCHANGED <<users, projects, categories, project_files, disk, counters, tokens>>

\* POST /tasks/:id/upload with n files
canUpload(a, task) ==
  \/ a.role = "admin"
  \/ task.created_by = a.id
  \/ task.assigned_to = a.id
  \/ task.project_owner = a.id

UploadTask(u, id, n, bad) ==
  /\ Ready
  /\ authenticateToken(u)
  /\ LET a == Actor(u)
         pre == TaskFacts(id)
         op == "uploadTask"
     IN
     /\ StoreFiles(n)
     /\ UNCHANGED <<users, projects, tasks, categories, project_files, counters, tokens>>
     /\ IF id \notin DOMAIN tasks
        THEN /\ ReplyU(op, a, id, 404, "Task not found", pre, n)
             /\ UNCHANGED task_files
        ELSE IF ~canUpload(a, TaskFacts(id))
        THEN /\ ReplyU(op, a, id, 403, "Access denied", pre, n)
             /\ UNCHANGED task_files
        ELSE IF n = 0
        THEN /\ ReplyU(op, a, id, 400, "No files uploaded", pre, n)
             /\ UNCHANGED task_files
        ELSE IF a.id \notin DOMAIN users
        THEN \* uploaded_by REFERENCES users(id): the first INSERT throws
             /\ ReplyU(op, a, id, 400, "Referenced resource does not exist", pre, n)
             /\ UNCHANGED task_files
        ELSE /\ task_files' =
                  task_files \o InsertLoop([task_id |-> id, uploaded_by |-> a.id], n, bad)
             /\ IF bad = 0
                THEN ReplyU(op, a, id, 200, "file(s) uploaded successfully to task", pre, n)
                ELSE ReplyU(op, a, id, 500, "Internal Server Error", pre, n)

\* ------------------------------------------------------- routes/categories.js
TasksOfCategory(id) == {t \in DOMAIN tasks : tasks[t].category_id = id}

GetCategory(u, id) ==
  /\ Ready
  /\ authenticateToken(u)
  /\ LET a == Actor(u)
         pre == CategoryFacts(id)
     IN
     IF id \notin categories
     THEN Reply("getCategory", a, id, 404, "Category not found", pre, {}, {})
     ELSE Reply("getCategory", a, id, 200, "", pre, TasksOfCategory(id), {})
  /\ NoCommit /\ UNCHANGED <<store, counters, tokens>>

CreateCategory(u) ==
  /\ Ready
  /\ authenticateToken(u)
  /\ LET a == Actor(u)
         op == "createCategory"
     IN
     IF ~authorizeRoles(a, {"admin", "manager"})
     THEN /\ Reply(op, a, NULL, 403, "Insufficient permissions", NoFacts, {}, {})
          /\ NoCommit /\ UNCHANGED <<store, counters, tokens>>
     ELSE /\ nextCat <= NumDefaultCats + MaxNewCats
          /\ categories' = categories \cup {nextCat}
          /\ nextCat' = nextCat + 1
          /\ Reply(op, a, nextCat, 201, "Category created successfully", NoFacts, {}, {})
          /\ Commit
          /\ UNCHANGED <<users, projects, tasks, task_files, project_files, disk,
                         nextUser, nextProject, nextTask, tokens>>

\* PUT /categories/:id (name, description and colour are not part of the model)
UpdateCategory(u, id) ==
  /\ Ready
  /\ authenticateToken(u)
  /\ LET a == Actor(u)
         pre == CategoryFacts(id)
         op == "updateCategory"
     IN
     IF ~authorizeRoles(a, {"admin", "manager"})
     THEN Reply(op, a, id, 403, "Insufficient permissions", pre, {}, {})
     ELSE IF id \notin categories
     THEN Reply(op, a, id, 404, "Category not found", pre, {}, {})
     ELSE Reply(op, a, id, 200, "Category updated successfully", pre, {}, {})
  /\ NoCommit /\ UNCHANGED <<store, counters, tokens>>

DeleteCategory(u, id) ==
  /\ Ready
  /\ authenticateToken(u)
  /\ LET a == Actor(u)
         pre == CategoryFacts(id)
         op == "deleteCategory"
     IN
     IF ~authorizeRoles(a, {"admin", "manager"})
     THEN /\ Reply(op, a, id, 403, "Insufficient permissions", pre, {}, {})
          /\ NoCommit /\ UNCHANGED <<store, counters, tokens>>
     ELSE IF id \notin categories
     THEN /\ Reply(op, a, id, 404, "Category not found", pre, {}, {})
          /\ NoCommit /\ UNCHANGED <<store, counters, tokens>>
     ELSE IF TasksOfCategory(id) # {}
     THEN /\ Reply(op, a, id, 400, "Cannot delete category that is being used by tasks", pre, {}, {})
          /\ NoCommit /\ UNCHANGED <<store, counters, tokens>>
     ELSE /\ categories' = categories \ {id}
          /\ Reply(op, a, id, 200, "Category deleted successfully", pre, {}, {})
          /\ Commit
          /\ UNCHANGED <<users, projects, tasks, task_files, project_files, disk,
                         counters, tokens>>

\* ------------------------------------------------------------ calls in flight
\* A handler awaits every statement it sends to the store: between its check queries
\* and its write statement the statements of other calls run.  No handler opens a
\* transaction.  A call that passed its checks is kept with what it read and what it
\* is about to write; a call that fails a check answers at once, as the handler does.
CallIds == 1..MaxInFlight
FreeCall == CHOOSE c \in CallIds \ DOMAIN calls : \A d \in CallIds \ DOMAIN calls : c <= d
NoArgs == [email |-> NULL, password |-> NULL, role |-> "", project_id |-> NULL,
           assigned_to |-> NULL, category_id |-> NULL, status |-> ""]
Call(op, a, target, facts, args) ==
  [op |-> op, a |-> a, target |-> target, facts |-> facts, args |-> args]

\* await db.execute(<check query>) passed: the call goes on after other calls' statements
Await(call) ==
  /\ DOMAIN calls # CallIds
  /\ calls' = Put(calls, FreeCall, call)
  /\ UNCHANGED <<store, counters, tokens, commits, budget, resp>>

Pending(c, op) == c \in DOMAIN calls /\ calls[c].op = op

\* the write statement of call c changed rows
CommitCall(c) ==
  /\ commits < budget
  /\ commits' = commits + 1
  /\ budget' = budget
  /\ calls' = Remove(calls, c)
\* the write statement of call c changed no row, or threw
EndCall(c) ==
  /\ UNCHANGED <<commits, budget>>
  /\ calls' = Remove(calls, c)

\* errorHandler on the errors of the store
errorHandlerDb(code) ==
  IF code = "ER_DUP_ENTRY" THEN [status |-> 409, msg |-> "Resource already exists"]
  ELSE IF code = "ER_NO_REFERENCED_ROW_2"
  THEN [status |-> 400, msg |-> "Referenced resource does not exist"]
  ELSE [status |-> 500, msg |-> "Internal Server Error"]

UniqueEmailOff(email) == TRUE
\* users.email VARCHAR(191) UNIQUE: an INSERT of this address is accepted
UniqueEmail(email) == EmailOwner(email) = {}

\* POST /auth/register up to its INSERT: the SELECT by email
RegisterSelect(email, password, role) ==
  IF EmailOwner(email) # {}
  THEN Register(email, password, role)
  ELSE /\ Ready
       /\ Await(Call("register", Anonymous, NULL, NoFacts,
                     [NoArgs EXCEPT !.email = email, !.password = password, !.role = role]))

\* POST /auth/register: the INSERT and the response, or next(error)
RegisterInsert(c) ==
  /\ Ready
  /\ Pending(c, "register")
  /\ LET b == calls[c].args IN
     IF ~UniqueEmail(b.email)
     THEN /\ Reply("register", Anonymous, NULL, errorHandlerDb("ER_DUP_ENTRY").status,
                   errorHandlerDb("ER_DUP_ENTRY").msg, calls[c].facts, {}, {})
          /\ EndCall(c)
          /\ UNCHANGED <<store, counters, tokens>>
     ELSE /\ nextUser <= MaxUsers
          /\ users' = Put(users, nextUser,
                          [email |-> b.email, password |-> b.password, role |-> b.role,
                           active |-> TRUE, last_login |-> NULL, avatar |-> NULL])
          /\ nextUser' = nextUser + 1
          /\ Reply("register", Anonymous, nextUser, 201, "User registered successfully",
                   calls[c].facts, {}, {})
          /\ CommitCall(c)
          /\ UNCHANGED <<projects, tasks, categories, task_files, project_files, disk,
                         nextProject, nextTask, nextCat, tokens>>

\* DELETE /projects/:id up to its DELETE: role, scoped row and task count
DeleteProjectCheck(u, id) ==
  /\ Ready
  /\ authenticateToken(u)
  /\ LET a == Actor(u) IN
     IF /\ authorizeRoles(a, {"admin", "manager"})
        /\ ProjectWriteRows(a, id) # {}
        /\ TasksOfProject(id) = {}
     THEN Await(Call("deleteProject", a, id, ProjectFacts(id), NoArgs))
     ELSE DeleteProject(u, id)

\* DELETE /projects/:id: DELETE FROM projects WHERE id = ?, with the cascades of the
\* schema: project_files and tasks of the project, task_files of those tasks
DeleteProjectDelete(c) ==
  /\ Ready
  /\ Pending(c, "deleteProject")
  /\ LET id == calls[c].target
         gone == TasksOfProject(id)
     IN
     /\ projects' = Remove(projects, id)
     /\ project_files' = SelectOut(project_files, FALSE, id)
     /\ tasks' = [t \in DOMAIN tasks \ gone |-> tasks[t]]
     /\ task_files' = SelectSeq(task_files, LAMBDA f : f.task_id \notin gone)
     /\ Reply("deleteProject", calls[c].a, id, 200, "Project deleted successfully",
              calls[c].facts, {}, {})
     /\ CommitCall(c)
     /\ UNCHANGED <<users, categories, disk, counters, tokens>>

\* PUT /tasks/:id up to its UPDATE: the check query, canEdit and the lookups of the body
UpdateTaskCheck(u, id, project_id, assigned_to, category_id, status) ==
  /\ Ready
  /\ authenticateToken(u)
  /\ LET a == Actor(u) IN
     IF /\ id \in DOMAIN tasks
        /\ canEdit(a, TaskFacts(id))
        /\ project_id \in DOMAIN projects
        /\ (assigned_to = NULL \/ ActiveUserRows(assigned_to) # {})
        /\ (category_id = NULL \/ CategoryRows(category_id) # {})
     THEN Await(Call("updateTask", a, id, TaskFacts(id),
                     [NoArgs EXCEPT !.project_id = project_id, !.assigned_to = assigned_to,
                                    !.category_id = category_id, !.status = status]))
     ELSE UpdateTask(u, id, project_id, assigned_to, category_id, status)

\* the foreign keys of tasks, checked by the store when a row is written
TaskForeignKeys(b) ==
  /\ b.project_id \in DOMAIN projects
  /\ (b.assigned_to = NULL \/ b.assigned_to \in DOMAIN users)
  /\ (b.category_id = NULL \/ b.category_id \in categories)

\* PUT /tasks/:id: UPDATE tasks SET ... WHERE id = ? and the response
UpdateTaskUpdate(c) ==
  /\ Ready
  /\ Pending(c, "updateTask")
  /\ LET id == calls[c].target
         b == calls[c].args
         body == BodyFacts(b.project_id, b.assigned_to, b.category_id)
     IN
     IF id \notin DOMAIN tasks
     THEN \* no row matches: the statement succeeds
          /\ ReplyB("updateTask", calls[c].a, id, 200, "Task updated successfully",
                    calls[c].facts, body)
          /\ EndCall(c)
          /\ UNCHANGED <<store, counters, tokens>>
     ELSE IF ~TaskForeignKeys(b)
     THEN /\ ReplyB("updateTask", calls[c].a, id,
                    errorHandlerDb("ER_NO_REFERENCED_ROW_2").status,
                    errorHandlerDb("ER_NO_REFERENCED_ROW_2").msg, calls[c].facts, body)
          /\ EndCall(c)
          /\ UNCHANGED <<store, counters, tokens>>
     ELSE /\ tasks' = [tasks EXCEPT ![id] =
                         [@ EXCEPT !.project_id = b.project_id, !.assigned_to = b.assigned_to,
                                   !.category_id = b.category_id, !.status = b.status]]
          /\ ReplyB("updateTask", calls[c].a, id, 200, "Task updated successfully",
                    calls[c].facts, body)
          /\ CommitCall(c)
          /\ UNCHANGED <<users, projects, categories, task_files, project_files, disk,
                         counters, tokens>>

\* PATCH /tasks/:id/status up to its UPDATE
SetTaskStatusCheck(u, id, status) ==
  /\ Ready
  /\ authenticateToken(u)
  /\ LET a == Actor(u) IN
     IF status \in TaskStatuses /\ id \in DOMAIN tasks /\ canEditStatus(a, TaskFacts(id))
     THEN Await(Call("setTaskStatus", a, id, TaskFacts(id), [NoArgs EXCEPT !.status = status]))
     ELSE SetTaskStatus(u, id, status)

\* PATCH /tasks/:id/status: UPDATE tasks SET status = ? WHERE id = ?
SetTaskStatusUpdate(c) ==
  /\ Ready
  /\ Pending(c, "setTaskStatus")
  /\ LET id == calls[c].target IN
     /\ Reply("setTaskStatus", calls[c].a, id, 200, "Task status updated successfully",
              calls[c].facts, {}, {})
     /\ IF id \notin DOMAIN tasks
        THEN EndCall(c) /\ UNCHANGED <<store, counters, tokens>>
        ELSE /\ tasks' = [tasks EXCEPT ![id].status = calls[c].args.status]
             /\ CommitCall(c)
             /\ UNCHANGED <<users, projects, categories, task_files, project_files, disk,
                            counters, tokens>>

\* DELETE /tasks/:id up to its DELETE
DeleteTaskCheck(u, id) ==
  /\ Ready
  /\ authenticateToken(u)
  /\ LET a == Actor(u) IN
     IF DeleteTaskRows(id) # {} /\ canDelete(a, TaskFacts(id))
     THEN Await(Call("deleteTask", a, id, TaskFacts(id), NoArgs))
     ELSE DeleteTask(u, id)

\* DELETE /tasks/:id: DELETE FROM tasks WHERE id = ?
DeleteTaskDelete(c) ==
  /\ Ready
  /\ Pending(c, "deleteTask")
  /\ LET id == calls[c].target IN
     /\ Reply("deleteTask", calls[c].a, id, 200, "Task deleted successfully",
              calls[c].facts, {}, {})
     /\ IF id \notin DOMAIN tasks
        THEN EndCall(c) /\ UNCHANGED <<store, counters, tokens>>
        ELSE /\ tasks' = Remove(tasks, id)
             /\ task_files' = SelectOut(task_files, TRUE, id)
             /\ CommitCall(c)
             /\ UNCHANGED <<users, projects, categories, project_files, disk, counters,
                            tokens>>

\* ------------------------------------------------------------ specification
\* The client has read the response and is ready for its next request.
NextRequest ==
  /\ resp # Idle
  /\ resp' = Idle
  /\ UNCHANGED <<store, counters, tokens, commits, inflight>>

\* A request goes out only when the client is Ready; the guard stands before the
\* inputs so that they are enumerated for ready states only.
Next ==
  \/ Ready /\ \E e \in EmailInputs, r \in Roles : Register(e, 1, r)
  \/ Ready /\ \E e \in EmailInputs, pw \in Passwords : Login(e, pw)
  \/ Ready /\ \E u \in UserIds, id \in UserIds, n \in BOOLEAN, e \in {NULL} \cup EmailInputs,
                 r \in {""} \cup Roles : UpdateUser(u, id, n, e, r)
  \/ Ready /\ \E u \in UserIds, id \in UserIds, cur \in {NULL} \cup Passwords,
                 new \in {NULL} \cup Passwords : ChangePassword(u, id, cur, new)
  \/ Ready /\ \E u \in UserIds, id \in UserIds, flag \in BOOLEAN : SetActive(u, id, flag)
  \/ Ready /\ \E u \in UserIds, id \in UserIds : DeleteUser(u, id)
  \/ Ready /\ \E u \in UserIds, id \in UserIds, n \in 0..1 : UploadAvatar(u, id, n)
  \/ Ready /\ \E u \in UserIds : ListProjects(u)
  \/ Ready /\ \E u \in UserIds, id \in ProjectIds : GetProject(u, id)
  \/ Ready /\ \E u \in UserIds : CreateProject(u, "")
  \/ Ready /\ \E u \in UserIds, id \in ProjectIds, st \in ProjectStatusInputs : UpdateProject(u, id, st)
  \/ Ready /\ \E u \in UserIds, id \in ProjectIds : DeleteProject(u, id)
  \/ Ready /\ \E u \in UserIds, id \in ProjectIds, n \in 0..MaxFilesPerUpload : \E bad \in 0..n :
                 UploadProject(u, id, n, bad)
  \/ Ready /\ \E u \in UserIds : ListTasks(u)
  \/ Ready /\ \E u \in UserIds, id \in TaskIds : GetTask(u, id)
  \/ Ready /\ \E u \in UserIds, p \in ProjectIds, as \in {NULL} \cup UserIds, c \in {NULL} \cup CatIds :
                 CreateTask(u, p, as, c, "")
  \/ Ready /\ \E u \in UserIds, id \in TaskIds, p \in ProjectIds, as \in {NULL} \cup UserIds,
                 c \in {NULL} \cup CatIds, st \in TaskStatusInputs : UpdateTask(u, id, p, as, c, st)
  \/ Ready /\ \E u \in UserIds, id \in TaskIds, st \in TaskStatusInputs \cup {"bogus"} :
                 SetTaskStatus(u, id, st)
  \/ Ready /\ \E u \in UserIds, id \in TaskIds : DeleteTask(u, id)
  \/ Ready /\ \E u \in UserIds, id \in TaskIds, n \in 0..MaxFilesPerUpload : \E bad \in 0..n :
                 UploadTask(u, id, n, bad)
  \/ Ready /\ \E u \in UserIds, id \in CatIds : GetCategory(u, id)
  \/ Ready /\ \E u \in UserIds : CreateCategory(u)
  \/ Ready /\ \E u \in UserIds, id \in CatIds : UpdateCategory(u, id)
  \/ Ready /\ \E u \in UserIds, id \in CatIds : DeleteCategory(u, id)
  \/ NextRequest

Spec == Init /\ [][Next]_vars

\* The token lifecycle: the routes of routes/auth.js, the user administration that
\* changes what a token's subject is in the store, and the clock.
\* Accounts are registered with the default role and administered by the seeded
\* administrator, who promotes them as it sees fit.
AuthNext ==
  \/ Ready /\ \E e \in EmailInputs : Register(e, 1, "user")
  \/ Ready /\ \E e \in EmailInputs, pw \in Passwords : Login(e, pw)
  \/ Ready /\ \E u \in UserIds, c \in CredKinds : Refresh(u, c)
  \/ Ready /\ \E u \in UserIds, c \in CredKinds : Profile(u, c)
  \/ Ready /\ \E u \in UserIds, c \in CredKinds : Logout(u, c)
  \/ Ready /\ \E u \in UserIds, c \in CredKinds, op \in ProtectedRoutes : Unauthenticated(u, c, op)
  \/ Ready /\ \E id \in UserIds, r \in Roles :
                 UpdateUser(1, id, FALSE, NULL, r)
  \/ Ready /\ \E id \in UserIds, flag \in BOOLEAN : SetActive(1, id, flag)
  \/ Ready /\ \E id \in UserIds : DeleteUser(1, id)
  \/ Tick
  \/ NextRequest

AuthSpec == Init /\ [][AuthNext]_vars

\* Calls that overlap: the handlers that check and then write run as two steps, so
\* that the statements of other calls fall between the two.  Accounts register with
\* the default role; the seeded administrator sets up projects and assigns tasks to
\* registered accounts.
RaceInit == InitState /\ budget = MaxRaceCommits

RaceNext ==
  \/ Ready /\ \E e \in EmailInputs : RegisterSelect(e, 1, "user")
  \/ \E c \in CallIds : RegisterInsert(c)
  \/ Ready /\ \E e \in EmailInputs : Login(e, 1)
  \/ Ready /\ CreateProject(1, "")
  \/ Ready /\ \E p \in ProjectIds, as \in UserIds \ {1} : CreateTask(1, p, as, NULL, "")
  \/ Ready /\ \E id \in ProjectIds : DeleteProjectCheck(1, id)
  \/ \E c \in CallIds : DeleteProjectDelete(c)
  \/ Ready /\ \E u \in UserIds, id \in TaskIds, p \in ProjectIds :
                 UpdateTaskCheck(u, id, p, NULL, NULL, "todo")
  \/ \E c \in CallIds : UpdateTaskUpdate(c)
  \/ Ready /\ \E u \in UserIds, id \in TaskIds : SetTaskStatusCheck(u, id, "todo")
  \/ \E c \in CallIds : SetTaskStatusUpdate(c)
  \/ Ready /\ \E u \in UserIds, id \in TaskIds : DeleteTaskCheck(u, id)
  \/ \E c \in CallIds : DeleteTaskDelete(c)
  \/ NextRequest

RaceSpec == RaceInit /\ [][RaceNext]_vars

\* ------------------------------------------------------------ properties
\* The response of the last request, and the facts recorded with it.
TaskWrites == {"updateTask", "setTaskStatus", "uploadTask"}
ProjectWrites == {"updateProject", "deleteProject", "uploadProject"}
CategoryWrites == {"updateCategory", "deleteCategory"}
UserWrites == {"updateUser", "changePassword", "deactivateUser", "activateUser", "deleteUser"}
GuardedWrites ==
  TaskWrites \cup {"deleteTask"} \cup ProjectWrites \cup CategoryWrites \cup UserWrites
ValidationMsgs ==
  {"Invalid status", "New password must be at least 8 characters long",
   "Current password is required"}
RelatedToTask(uid, f) == uid \in {f.created_by, f.assigned_to, f.project_owner}

\* C1: for a role=user actor, reading a project or a task by id succeeds
\* exactly when the scoped list returns that project or task, and a scoped
\* list holds exactly the rows whose by-id read succeeds.
C1_ByIdAgreesWithList ==
  resp.role = "user" =>
    LET a == [id |-> resp.uid, role |-> resp.role] IN
    /\ resp.op = "getProject" => (resp.status = 200 <=> resp.target \in ListProjectsRows(a))
    /\ resp.op = "getTask" => (resp.status = 200 <=> resp.target \in ListTasksRows(a))
    /\ resp.op = "listProjects" =>
         resp.projects = {p \in ProjectIds : GetProjectRows(a, p) # {}}
    /\ resp.op = "listTasks" =>
         resp.tasks = {t \in TaskIds : GetTaskRows(a, t) # {}}

\* a role=user actor reads by id a project they did not create but hold a task in
C1_Witness ==
  /\ resp.op = "getProject" /\ resp.role = "user" /\ resp.status = 200
  /\ resp.pre.created_by # resp.uid
  /\ resp.target \in ListProjectsRows([id |-> resp.uid, role |-> resp.role])

\* C2: every task a response discloses to a role=user actor is one they
\* created, are assigned to, or whose project they created.
C2_UserSeesOnlyRelatedTasks ==
  resp.role = "user" => \A t \in resp.tasks : RelatedToTask(resp.uid, TaskFacts(t))

C3_WitnessProjectOwner ==
  /\ resp.op \in TaskWrites /\ resp.pre.exists /\ resp.status # 403
  /\ resp.role # "admin" /\ resp.pre.project_owner = resp.uid
  /\ resp.uid \notin {resp.pre.created_by, resp.pre.assigned_to}

C5_AdminNeverForbidden == resp.role = "admin" => resp.status # 403

\* an admin who neither created nor holds the task, nor owns its project, passes
\* the permission check of a task write
C5_Witness ==
  /\ resp.role = "admin" /\ resp.op \in TaskWrites /\ resp.pre.exists
  /\ ~RelatedToTask(resp.uid, resp.pre) /\ resp.status # 403

\* C6 (as stated): an admin who deactivates or deletes their own account is
\* answered Forbidden (403).
C6_SelfTargetForbidden ==
  (resp.op \in {"deactivateUser", "deleteUser"} /\ resp.role = "admin"
     /\ resp.target = resp.uid) => resp.status = 403

\* C6 (amended): an admin who deactivates or deletes their own account is
\* refused with 400, not 403, and the user record is unchanged.
C6_SelfTargetRefused ==
  (resp.op \in {"deactivateUser", "deleteUser"} /\ resp.role = "admin"
     /\ resp.target = resp.uid) =>
    /\ resp.status = 400
    /\ resp.msg \in {"Cannot deactivate your own account", "Cannot delete your own account"}
    /\ UserFacts(resp.target) = resp.pre

C6_Witness ==
  /\ resp.op = "deleteUser" /\ resp.role = "admin" /\ resp.target = resp.uid
  /\ resp.pre.exists /\ resp.status = 400


C8_WitnessOwn ==
  /\ resp.op = "updateProject" /\ resp.role = "manager" /\ resp.pre.exists
  /\ resp.pre.created_by = resp.uid /\ resp.status = 200

\* C9: a task create commits only for an admin, a manager or the creator
\* of the target project; for anyone else no task is created.
C9_TaskCreateAuthorization ==
  [][resp'.op = "createTask" =>
       /\ resp'.status = 201 =>
            \/ resp'.role \in {"admin", "manager"}
            \/ resp'.pre.created_by = resp'.uid
       /\ (resp'.role \notin {"admin", "manager"} /\ resp'.pre.created_by # resp'.uid) =>
            (resp'.status # 201 /\ tasks' = tasks /\ nextTask' = nextTask)
       /\ resp'.status = 201 =>
            /\ DOMAIN tasks' = DOMAIN tasks \cup {resp'.target}
            /\ resp'.target \notin DOMAIN tasks
            /\ tasks'[resp'.target].created_by = resp'.uid]_vars

\* a role=user actor is refused a task in an existing project of someone else
C9_Witness ==
  /\ resp.op = "createTask" /\ resp.role = "user" /\ resp.pre.exists
  /\ resp.pre.created_by # resp.uid /\ resp.status = 404

C9_WitnessCreator ==
  /\ resp.op = "createTask" /\ resp.role = "user" /\ resp.status = 201
  /\ resp.target \in DOMAIN tasks

RefsValid(b) == b.project /\ b.assignee /\ b.category

\* C10 (as stated): a task create or update that is authorized but names a
\* missing project, a missing or inactive assignee or a missing category is
\* answered 400 (invalid reference).
C10_InvalidReferenceAnswered400 ==
  (/\ resp.op \in {"createTask", "updateTask"}
   /\ ~RefsValid(resp.body)
   /\ resp.op = "updateTask" => (resp.pre.exists /\ resp.status # 403)
   /\ resp.op = "createTask" => resp.role \in {"admin", "manager"})
  => resp.status = 400

\* C10 (amended): a task create or update commits only if the project
\* exists, the assignee (if given) exists and is active and the category
\* (if given) exists; otherwise no task row is created or changed, and the
\* answer is 400, except that a task create naming a missing project is
\* answered 404.
C10_ReferencesValidated ==
  [][resp'.op \in {"createTask", "updateTask"} =>
       LET r == resp' IN
       /\ r.status \in {200, 201} =>
            /\ RefsValid(r.body)
            /\ tasks'[r.target].project_id \in DOMAIN projects'
            /\ tasks'[r.target].assigned_to \in {NULL} \cup {x \in DOMAIN users' : users'[x].active}
            /\ tasks'[r.target].category_id \in {NULL} \cup categories'
       /\ r.status \notin {200, 201} => (tasks' = tasks /\ nextTask' = nextTask)
       /\ (~RefsValid(r.body) /\ r.op = "updateTask" /\ r.pre.exists /\ r.status # 403)
            => r.status = 400
       /\ (~RefsValid(r.body) /\ r.op = "createTask") =>
            IF ~r.body.project \/ (r.role = "user" /\ r.pre.created_by # r.uid)
            THEN r.status = 404 ELSE r.status = 400]_vars

C10_Witness ==
  /\ resp.op = "createTask" /\ resp.pre.exists /\ ~resp.body.category
  /\ resp.status = 400 /\ resp.msg = "Category not found"

C10_WitnessAssignee ==
  /\ resp.op = "updateTask" /\ resp.pre.exists /\ ~resp.body.assignee
  /\ resp.status = 400 /\ resp.msg = "Assigned user not found or inactive"

C10_WitnessCommit ==
  /\ resp.op = "createTask" /\ resp.status = 201 /\ resp.target \in DOMAIN tasks
  /\ tasks[resp.target].assigned_to # NULL /\ tasks[resp.target].category_id # NULL


Uploads == {"uploadTask", "uploadProject"}

\* C11: an upload to a task or project that is answered 404 or 403 has left
\* the upload directory and the task_files and project_files records as
\* they were.
C11_RefusedUploadStoresNothing ==
  [][(resp'.op \in Uploads /\ resp'.status \in {403, 404}) =>
       /\ disk' = disk
       /\ task_files' = task_files
       /\ project_files' = project_files]_vars

\* C12: when an upload of n files ends, with success or with an error, it
\* has added a file record for each of the n files or for none of them.
C12_UploadAllOrNothing ==
  [][resp'.op \in Uploads =>
       (Len(task_files') + Len(project_files')) - (Len(task_files) + Len(project_files))
         \in {0, resp'.files}]_vars


\* ------------------------------------------------------------ token lifecycle
\* What a response's credential was when it arrived, read from the credential itself.
SignedBy(tok, secret) == tok.form = "jwt" /\ tok.secret = secret
Unexpired(tok, at) == at < tok.exp
MintsNothing(r) == r.minted = NoMint

\* C13: a refresh whose token is validly signed and unexpired, but whose subject is
\* no longer in the store or is inactive at the lookup, is answered with an error
\* (401), returns no access token and leaves the tokens in circulation as they were.
C13_RefreshLocksOutGoneSubject ==
  [][(/\ resp'.op = "refresh"
      /\ SignedBy(resp'.cred, REFRESH_TOKEN_SECRET)
      /\ Unexpired(resp'.cred, resp'.at)
      /\ (resp'.cred.sub \notin DOMAIN users \/ ~users[resp'.cred.sub].active))
     => /\ resp'.status = 401
        /\ MintsNothing(resp')
        /\ UNCHANGED tokens]_vars

C13_Witness ==
  /\ resp.op = "refresh" /\ resp.status = 401 /\ resp.msg = "Invalid refresh token"
  /\ SignedBy(resp.cred, REFRESH_TOKEN_SECRET) /\ Unexpired(resp.cred, resp.at)
  /\ resp.cred.sub \in DOMAIN users /\ ~users[resp.cred.sub].active

C13_WitnessDeleted ==
  /\ resp.op = "refresh" /\ resp.status = 401 /\ resp.msg = "Invalid refresh token"
  /\ SignedBy(resp.cred, REFRESH_TOKEN_SECRET) /\ Unexpired(resp.cred, resp.at)
  /\ resp.cred.sub \notin DOMAIN users

\* The routes that hand out an access token, and those that only read the bearer's.
Issuers == {"login", "refresh"}
Readers == {"profile", "logout"}

C14_WitnessExpired ==
  /\ resp.op = "profile" /\ resp.status = 401 /\ resp.msg = "Expired"
  /\ SignedBy(resp.cred, JWT_SECRET) /\ resp.at > resp.cred.exp

\* C15: a token signed as a refresh token, sent as the bearer token of a protected
\* route, is answered 401 whatever the route; a token signed as an access token, sent
\* to refresh, is answered 401 and no access token is returned.
C15_TokensNotInterchangeable ==
  /\ (resp.op \in ProtectedRoutes /\ SignedBy(resp.cred, REFRESH_TOKEN_SECRET)) =>
       resp.status = 401
  /\ (resp.op = "refresh" /\ SignedBy(resp.cred, JWT_SECRET)) =>
       (resp.status = 401 /\ MintsNothing(resp))

C15_Witness ==
  /\ resp.op = "refresh" /\ SignedBy(resp.cred, JWT_SECRET) /\ Unexpired(resp.cred, resp.at)
  /\ resp.cred.sub \in DOMAIN users /\ users[resp.cred.sub].active
  /\ resp.status = 401

C15_WitnessBearer ==
  /\ resp.op = "getTask" /\ SignedBy(resp.cred, REFRESH_TOKEN_SECRET)
  /\ Unexpired(resp.cred, resp.at) /\ resp.status = 401

\* C16: a refresh whose token is missing, is not a token, is signed with another key
\* or has expired is answered 401 and returns no access token.
C16_BadRefreshTokenUnauthenticated ==
  (resp.op = "refresh"
   /\ ~(SignedBy(resp.cred, REFRESH_TOKEN_SECRET) /\ Unexpired(resp.cred, resp.at))) =>
    (resp.status = 401 /\ MintsNothing(resp))

\* The part of C16 the code keeps: such a refresh never returns an access token, and
\* it is answered 401 unless the token is a genuine refresh token that has expired.
C16_BadRefreshTokenMintsNothing ==
  (resp.op = "refresh"
   /\ ~(SignedBy(resp.cred, REFRESH_TOKEN_SECRET) /\ Unexpired(resp.cred, resp.at))) =>
    /\ MintsNothing(resp)
    /\ resp.status = IF SignedBy(resp.cred, REFRESH_TOKEN_SECRET) THEN 500 ELSE 401

\* C17: a logout, accepted or not, changes nothing the server keeps, and every access
\* token that the token check accepted before an accepted logout, the caller's own
\* included, is one it accepts after it; only the clock ends a token.
C17_LogoutRevokesNothing ==
  [][resp'.op = "logout" =>
       /\ UNCHANGED <<store, counters, tokens>>
       /\ resp'.status = 200 =>
            \A u \in UserIds :
              verify_access(AccessTokenOf(u)) = "ok" => (verify_access(AccessTokenOf(u)) = "ok")']_vars

C17_Witness ==
  /\ resp.op = "logout" /\ resp.status = 200 /\ resp.uid \in UserIds
  /\ resp.cred = AccessTokenOf(resp.uid)
  /\ verify_access(AccessTokenOf(resp.uid)) = "ok"
  /\ resp.at > 1

C18_WitnessRefresh ==
  /\ resp.op = "refresh" /\ resp.status = 200 /\ resp.target # 1
  /\ resp.minted.access.role = "admin" /\ users[resp.target].last_login < resp.at

\* Whether the store holds an active user with this email and this password.
GoodLogin(email, password) ==
  \E u \in DOMAIN users :
    users[u].email = email /\ users[u].active /\ users[u].password = password

\* C19: a login returns tokens only if the store holds an active user with the given
\* email and password, and then it returns an access and a refresh token; any other
\* login is answered 401, returns no token, and leaves every user's record (last_login
\* included) and every token in circulation as they were.
C19_LoginIssuesOnlyOnMatch ==
  [][resp'.op = "login" =>
       IF GoodLogin(resp'.cred.sub, resp'.cred.secret)
       THEN /\ resp'.status = 200
            /\ SignedBy(resp'.minted.access, JWT_SECRET)
            /\ SignedBy(resp'.minted.refresh, REFRESH_TOKEN_SECRET)
       ELSE /\ resp'.status = 401
            /\ MintsNothing(resp')
            /\ users' = users
            /\ UNCHANGED tokens]_vars

\* a wrong password for an active account
C19_Witness ==
  /\ resp.op = "login" /\ resp.status = 401 /\ resp.msg = "Invalid credentials"
  /\ resp.pre.exists /\ resp.pre.active /\ resp.target # 1
  /\ users[resp.target].last_login # NULL

\* the right password for a deactivated account
C19_WitnessInactive ==
  /\ resp.op = "login" /\ resp.status = 401 /\ resp.msg = "Account is deactivated"
  /\ resp.cred.secret = users[resp.target].password

\* a login that succeeds and stamps last_login
C19_WitnessIssued ==
  /\ resp.op = "login" /\ resp.status = 200 /\ resp.at > 1
  /\ users[resp.target].last_login = resp.at

\* C20: a request to a protected route whose bearer credential is absent, or is
\* anything but an access token signed with the access key and not yet expired, is
\* answered 401 as nobody's request; no resource has been looked up for it and the
\* store, the id counters and the tokens in circulation are as they were.
C20_ProtectedRoutesRequireAccessToken ==
  [][(/\ resp'.op \in ProtectedRoutes
      /\ ~(SignedBy(resp'.cred, JWT_SECRET) /\ Unexpired(resp'.cred, resp'.at)))
     => /\ resp'.status = 401
        /\ resp'.uid = NULL
        /\ resp'.pre = NoFacts /\ resp'.tasks = {} /\ resp'.projects = {}
        /\ UNCHANGED <<store, counters, tokens, commits>>]_vars

\* a write route called without any token
C20_Witness ==
  /\ resp.op = "createTask" /\ resp.cred = NoTok /\ resp.status = 401

\* an administrator's access token, expired, on a destructive route
C20_WitnessExpired ==
  /\ resp.op = "deleteUser" /\ SignedBy(resp.cred, JWT_SECRET) /\ resp.cred.role = "admin"
  /\ ~Unexpired(resp.cred, resp.at) /\ resp.status = 401

\* ------------------------------------------------------------ user administration
\* C22: the stored role of a user changes only in a step that answers 200 to a user
\* update of that user by an actor whose role is admin; a user update by any other
\* actor that asks for a role is answered 403 and leaves every user record as it was.
C22_RoleChangeOnlyByAdmin ==
  [][/\ \A id \in DOMAIN users \cap DOMAIN users' :
          users'[id].role # users[id].role =>
            (resp'.op = "updateUser" /\ resp'.role = "admin" /\ resp'.target = id
             /\ resp'.status = 200)
     /\ (resp'.op = "updateUser" /\ resp'.role # "admin" /\ resp'.ask.role # "") =>
          (resp'.status = 403 /\ users' = users)]_vars

\* a user asks for a new role and a new email on its own record
C22_Witness ==
  /\ resp.op = "updateUser" /\ resp.role = "user" /\ resp.uid = resp.target
  /\ resp.ask.role = "admin" /\ resp.ask.email
  /\ resp.status = 403 /\ resp.msg = "Only admins can change user roles"

\* an administrator changes another user's role
C22_WitnessChanged ==
  /\ resp.op = "updateUser" /\ resp.role = "admin" /\ resp.status = 200
  /\ resp.uid # resp.target /\ resp.target \in DOMAIN users
  /\ users[resp.target].role # resp.pre.role

\* The routes by which a user's own record is edited.
SelfEdits == {"updateUser", "changePassword", "uploadAvatar"}

\* C23: a user update, password change or avatar upload by an actor whose role is not
\* admin, aimed at another user's id, is answered 403 and changes nothing: not the
\* store, not the upload directory.
C23_ForeignUserEditChangesNothing ==
  [][(resp'.op \in SelfEdits /\ resp'.role # "admin" /\ resp'.uid # resp'.target) =>
       (resp'.status = 403 /\ UNCHANGED store)]_vars

\* The part of C23 the code keeps: such a request is answered 403 and no user record
\* is changed by it.
C23_ForeignUserRecordUntouched ==
  [][(resp'.op \in SelfEdits /\ resp'.role # "admin" /\ resp'.uid # resp'.target) =>
       (resp'.status = 403 /\ users' = users)]_vars

\* ------------------------------------------------------------ documented permissions
\* C25: an update of, an upload to or a delete of an existing task by an actor whose
\* role is manager is never refused for lack of permission, whoever created the task,
\* is assigned to it or owns its project.
C25_ManagerMayWriteAnyTask ==
  (resp.op \in {"updateTask", "uploadTask", "deleteTask"} /\ resp.role = "manager"
   /\ resp.pre.exists) => resp.status # 403

\* C26: a user record comes to hold role admin, by being created with it or by a
\* change of its role, only in a step that answers a request of an actor whose role
\* is admin.
C26_AdminOnlyMadeByAdmin ==
  [][\A id \in DOMAIN users' :
       (users'[id].role = "admin" /\ (id \notin DOMAIN users \/ users[id].role # "admin"))
         => resp'.role = "admin"]_vars

\* C27: at every moment the store holds a user whose role is admin and who is active.
C27_ActiveAdminRemains ==
  \E id \in DOMAIN users : users[id].role = "admin" /\ users[id].active

\* The part of C27 the self guards do secure: no actor deactivates or deletes the
\* account it is acting as.
C27_NoSelfRemoval ==
  [][(resp'.op \in {"deactivateUser", "deleteUser"} /\ resp'.status = 200) =>
       resp'.uid # resp'.target]_vars

\* ------------------------------------------------------------ mutable implies visible
\* Every actor a token can name.
Actors == [id : UserIds, role : Roles]

\* The task and project writes the handlers would let actor a through.
MayWriteTask(a, t) ==
  \/ canEdit(a, TaskFacts(t))
  \/ canEditStatus(a, TaskFacts(t))
  \/ canUpload(a, TaskFacts(t))
  \/ canDelete(a, TaskFacts(t))
MayWriteProject(a, p) ==
  authorizeRoles(a, {"admin", "manager"}) /\ ProjectWriteRows(a, p) # {}

\* C29: in every reachable state, for every actor and every task the actor is allowed
\* to update, change the status of, upload to or delete, and for every project the
\* actor is allowed to update or delete, the actor's read by id finds the resource and
\* the actor's scoped list contains it.
C29_MutableImpliesVisible ==
  \A a \in Actors :
    /\ \A t \in DOMAIN tasks :
         MayWriteTask(a, t) => (GetTaskRows(a, t) = {t} /\ t \in ListTasksRows(a))
    /\ \A p \in DOMAIN projects :
         MayWriteProject(a, p) => (GetProjectRows(a, p) = {p} /\ p \in ListProjectsRows(a))

\* a role=user actor reads a task it may edit only because it is assigned to it
C29_Witness ==
  /\ resp.op = "getTask" /\ resp.status = 200 /\ resp.role = "user"
  /\ resp.target \in DOMAIN tasks
  /\ tasks[resp.target].assigned_to = resp.uid /\ tasks[resp.target].created_by # resp.uid
  /\ ProjectOwnerOf(resp.target) # resp.uid
  /\ MayWriteTask([id |-> resp.uid, role |-> resp.role], resp.target)

\* a manager reads a project it may update
C29_WitnessProject ==
  /\ resp.op = "getProject" /\ resp.status = 200 /\ resp.role = "manager"
  /\ MayWriteProject([id |-> resp.uid, role |-> resp.role], resp.target)

\* ------------------------------------------------------------ overlapping calls
UniqueEmails(us) == \A x, y \in DOMAIN us : us[x].email = us[y].email => x = y

\* C21: under any interleaving of register calls no two users ever share an email; a
\* register call answers 201 only by adding one user whose email no user had when the
\* row was inserted, and otherwise answers 409 and leaves the users as they were; a
\* call whose email was taken while it was in flight is answered 409.
C21_DuplicateEmailRejected ==
  [][/\ UniqueEmails(users')
     /\ resp'.op = "register" =>
          IF resp'.status = 201
          THEN /\ DOMAIN users' = DOMAIN users \cup {resp'.target}
               /\ resp'.target \notin DOMAIN users
               /\ EmailOwner(users'[resp'.target].email) = {}
               /\ \A x \in DOMAIN users : users'[x] = users[x]
          ELSE resp'.status = 409 /\ users' = users
     /\ \A c \in DOMAIN calls :
          (Pending(c, "register") /\ c \notin DOMAIN calls'
             /\ EmailOwner(calls[c].args.email) # {}) =>
            (resp'.op = "register" /\ resp'.status = 409 /\ users' = users)]_vars

\* the call that lost the race: its SELECT found the email free, its INSERT did not
C21_Witness ==
  /\ resp.op = "register" /\ resp.status = 409 /\ resp.msg = "Resource already exists"
  /\ Cardinality(DOMAIN users) = 2
\* a register call sent after the email was taken
C21_WitnessSequential ==
  resp.op = "register" /\ resp.status = 409 /\ resp.msg = "Email already registered"
\* two register calls for one email in flight together
C21_WitnessInFlight ==
  \E c, d \in DOMAIN calls :
    /\ c # d /\ Pending(c, "register") /\ Pending(d, "register")
    /\ calls[c].args.email = calls[d].args.email

\* C24: a project delete answers 200 only for a project that has no tasks at the
\* moment of the delete, and the delete removes no task, whatever task creation ran
\* between its task count and its DELETE.
C24_ProjectDeleteRemovesNoTask ==
  [][(resp'.op = "deleteProject" /\ resp'.status = 200) =>
       (TasksOfProject(resp'.target) = {} /\ DOMAIN tasks' = DOMAIN tasks)]_vars

\* a project delete answered 400 found a task in the project and changed nothing
C24_CountedTaskRefusesDelete ==
  [][(resp'.op = "deleteProject" /\ resp'.status = 400) =>
       (TasksOfProject(resp'.target) # {} /\ UNCHANGED store)]_vars

\* C28: a task create or a task update answered to a role=user actor puts a task into
\* a project (a new task, or a task whose project_id the step changes) only if the
\* actor created that project.
C28_UserPlacesTaskOnlyInOwnProject ==
  [][\A t \in DOMAIN tasks' :
       (/\ resp'.op \in {"createTask", "updateTask"} /\ resp'.role = "user"
        /\ resp'.target = t
        /\ (t \notin DOMAIN tasks \/ tasks'[t].project_id # tasks[t].project_id)) =>
         (/\ tasks'[t].project_id \in DOMAIN projects
          /\ projects[tasks'[t].project_id].created_by = resp'.uid)]_vars

TaskCommits == {"updateTask", "setTaskStatus", "deleteTask"}
\* the permission check of the handler of op, on the given ownership facts
Permit(op, a, task) ==
  CASE op = "updateTask" -> canEdit(a, task)
    [] op = "setTaskStatus" -> canEditStatus(a, task)
    [] op = "deleteTask" -> canDelete(a, task)
    [] OTHER -> FALSE
\* call c sends its write statement in this step and the statement changes a row
Commits(c) == c \in DOMAIN calls /\ c \notin DOMAIN calls' /\ commits' = commits + 1

\* C30: whenever a task update, status change or delete writes its row, the actor
\* passes the handler's permission check on the created_by, assigned_to and project
\* owner that the task has at that moment, whatever other calls ran since the
\* handler read them.
C30_CommitAuthorizedByCurrentFacts ==
  [][\A c \in DOMAIN calls :
       (Commits(c) /\ calls[c].op \in TaskCommits) =>
         Permit(calls[c].op, calls[c].a, TaskFacts(calls[c].target))]_vars

\* every such write passed the permission check on the facts its handler had read
C30_CommitAuthorizedByFactsRead ==
  [][\A c \in DOMAIN calls :
       (Commits(c) /\ calls[c].op \in TaskCommits) =>
         Permit(calls[c].op, calls[c].a, calls[c].facts)]_vars

====
